---- MODULE Spec2Model ----
(***************************************************************************)
(* Model of munin_supervisord/processes.py: the Munin plugin               *)
(* MuninSupervisordProcessStatsPlugin.  The constructor fetches the        *)
(* supervisor's process table once and declares one graph per enabled      *)
(* category; retrieveVals samples every entry of the table through psutil  *)
(* and hands the values to the graphs.                                     *)
(*                                                                         *)
(* Python values are modelled as tagged records: an int, a float kept as   *)
(* the exact quotient num/den, and None.  A dict is a function whose       *)
(* DOMAIN is the set of its keys.                                          *)
(***************************************************************************)
EXTENDS Integers, Sequences, FiniteSets, TLC

VARIABLES
    entries,    \* self.entries: the supervisor's process table
    enabled,    \* the graph names for which graphEnabled() is true
    graphs,     \* the graphs appended in __init__: graph name -> field list
    stats,      \* self._stats: defaultdict(dict), graph name -> key -> value
    vals,       \* the values handed over with setGraphVal
    pc,         \* "idle" | "loop" | "raised"
    idx,        \* position of the for loop of retrieveVals in self.entries
    cycle,      \* number of retrieveVals calls started on this instance
    log,        \* history: per entry visited in this call, what the OS
                \* answered and what the iteration did
    written     \* history: <<graph, key, entry index>> stored in this call

vars == <<entries, enabled, graphs, stats, vals, pc, idx, cycle, log, written>>

----------------------------------------------------------------------------
(* Bounds of the model *)

MaxProcs == 2        \* longest process table drawn in Init
MaxCycles == 2       \* retrieveVals calls made on one instance (SpecCycles)
MaxDisabled == 1     \* most categories disabled at once in Init
MaxFaults == 1       \* most reads that go wrong for one process in one call
MaxSpikes == 2       \* most non-zero readings in one CPU burst (SpecCpu)
FirstPid == 41       \* pid of the first live process of the table
TotalMemBytes == 1074266112   \* psutil.virtual_memory().total: 1 GiB + 512 KiB

(* Program constants *)

CpuSamples == 20     \* range(20)
Kib == 1024          \* / 1024 / 1024
Percent == 100       \* / 100

----------------------------------------------------------------------------
(* Python values *)

None == [t |-> "None"]
PyInt(n) == [t |-> "int", v |-> n]
PyFloat(n, d) == [t |-> "float", num |-> n, den |-> d]

EmptyDict == <<>>

DictGet(d, k) == IF k \in DOMAIN d THEN d[k] ELSE None

DictSet(d, k, v) == [x \in (DOMAIN d) \cup {k} |-> IF x = k THEN v ELSE d[x]]

\* self._stats[graph_name]: a defaultdict creates the inner dict on access
DefaultGet(st, g) == IF g \in DOMAIN st THEN st[g] ELSE EmptyDict

\* self._stats[graph_name][key] = value
StatsSet(st, g, k, v) == DictSet(st, g, DictSet(DefaultGet(st, g), k, v))

----------------------------------------------------------------------------
(* The eight graphs of __init__ *)

MEMORY_USAGE == "supervisord_processes_memory_usage"
CPU_PERCENT_AVG == "supervisord_processes_cpu_percent_avg"
CPU_PERCENT_MAX == "supervisord_processes_cpu_percent_max"
CTX_INVOLUNTARY == "supervisord_processes_num_context_switches_involuntary"
CTX_VOLUNTARY == "supervisord_processes_num_context_switches_voluntary"
NUM_FDS == "supervisord_processes_num_fds"
NUM_THREADS == "supervisord_processes_num_threads"
NUM_CONNECTIONS == "supervisord_processes_num_connections"

GraphNames ==
    {MEMORY_USAGE, CPU_PERCENT_AVG, CPU_PERCENT_MAX, CTX_INVOLUNTARY,
     CTX_VOLUNTARY, NUM_FDS, NUM_THREADS, NUM_CONNECTIONS}

\* attrs of retrieveVals
Attrs == {"num_fds", "num_ctx_switches", "num_threads", "memory_percent"}

\* label_fmt.format(**entry)
LabelOf(entry) ==
    IF entry.group = entry.name
    THEN entry.name \o "." \o ToString(entry.pid)
    ELSE entry.group \o ":" \o entry.name

IsRunning(entry) == entry.statename \in {"RUNNING"}

RECURSIVE RunningFields(_)
\* the fields added to one graph: one per RUNNING entry, in table order,
\* named entry['name'] and labelled with the derived label
RunningFields(es) ==
    IF es = <<>> THEN <<>>
    ELSE IF IsRunning(Head(es))
         THEN <<[name |-> Head(es).name, label |-> LabelOf(Head(es))]>>
              \o RunningFields(Tail(es))
         ELSE RunningFields(Tail(es))

\* self.graphEnabled(graph_name): resolved from the plugin's environment
GraphEnabled(g) == g \in enabled

\* the graphs appended by __init__: enabled and with at least one field
InitGraphs(es) ==
    [g \in {h \in GraphNames : GraphEnabled(h) /\ Len(RunningFields(es)) > 0}
        |-> RunningFields(es)]

----------------------------------------------------------------------------
(* The operating system, as psutil shows it.  What a live process's       *)
(* counters read is a function of its pid and of the call, so that values  *)
(* of different processes and of different calls can be told apart.  What  *)
(* fails, and where, is an outcome record drawn for each entry visited:    *)
(*   open         result of psutil.Process(pid)                            *)
(*   as_dict      result of p.as_dict(attrs)                               *)
(*   denied       the attributes as_dict() could not read (set to None)    *)
(*   cpu          the readings successive p.cpu_percent() calls return     *)
(*   cpu_fail     the cpu_percent() call that raises (0: none does)        *)
(*   cpu_exc      what that call raises                                    *)
(*   connections  result of p.connections()                                *)

NoSuchProcess == "NoSuchProcess"
AccessDenied == "AccessDenied"
AttributeError == "AttributeError"

OsFacts(pid, cyc) ==
    [num_fds |-> PyInt(pid + cyc),
     num_threads |-> PyInt(cyc),
     num_ctx_switches |-> [voluntary |-> PyInt(2 * pid + cyc),
                           involuntary |-> PyInt(pid - cyc)],
     memory_percent |-> PyFloat(pid + cyc, Percent),
     connections |-> pid - cyc]

StreamLen == CpuSamples + 1

FlatStream == [i \in 1..StreamLen |-> 0]

CpuLevels == {50, 100}

RECURSIVE SpikeStreams(_)
\* the reading streams with at most k non-zero readings
SpikeStreams(k) ==
    IF k = 0 THEN {FlatStream}
    ELSE LET S == SpikeStreams(k - 1)
         IN  S \cup {[s EXCEPT ![p] = l] : s \in S, p \in 1..StreamLen, l \in CpuLevels}

\* one reading of 50 among zeros
OneSpike == [FlatStream EXCEPT ![11] = 50]

ConnResults == {"ok", AccessDenied, NoSuchProcess}

Outcome(open, asd, den, cpu, fail, exc, conn) ==
    [open |-> open, as_dict |-> asd, denied |-> den, cpu |-> cpu,
     cpu_fail |-> fail, cpu_exc |-> exc, connections |-> conn]

GoneAtOpen == Outcome(NoSuchProcess, "na", {}, FlatStream, 0, "na", "na")

GoneAtRead == Outcome("ok", NoSuchProcess, {}, FlatStream, 0, "na", "na")

\* the outcomes the OS can give for one entry: pid 0 (a process the
\* supervisor is not running) is no process psutil can open; for a live pid
\* at most MaxFaults of the attribute reads and the connection listing go
\* wrong, or the process is gone at open, at as_dict or during the burst
Outcomes(entry, streams, failPoints) ==
    IF entry.pid = 0 THEN {GoneAtOpen}
    ELSE {GoneAtOpen, GoneAtRead}
         \cup {Outcome("ok", "ok", {}, FlatStream, k, e, "na") :
                   k \in failPoints, e \in {NoSuchProcess, AccessDenied}}
         \cup {Outcome("ok", "ok", dc[1], s, 0, "na", dc[2]) :
                   dc \in {x \in (SUBSET Attrs) \X ConnResults :
                             Cardinality(x[1]) + (IF x[2] = "ok" THEN 0 ELSE 1)
                                <= MaxFaults},
                   s \in streams}

\* the outcomes drawn in Spec, SpecFlags and SpecCycles: one reading stream,
\* a burst that fails at its first or at its last read
World(entry) == Outcomes(entry, {OneSpike}, {1, CpuSamples})

\* the outcomes drawn in SpecCpu: every stream of at most MaxSpikes spikes,
\* a burst that fails at any read, nothing else going wrong
CpuWorld(entry) ==
    {o \in Outcomes(entry, SpikeStreams(MaxSpikes), 1..CpuSamples) :
        o.open = "ok" /\ o.as_dict = "ok" /\ o.denied = {}
        /\ o.connections \in {"ok", "na"}}

----------------------------------------------------------------------------
(* retrieveVals: one iteration of the loop over self.entries *)

\* p.as_dict(attrs=attrs): an attribute that cannot be read comes back None
AsDict(pid, o, cyc) ==
    [a \in Attrs |-> IF a \in o.denied THEN None ELSE OsFacts(pid, cyc)[a]]

RECURSIVE CpuLoop(_, _, _)
\* for i in range(20): cpu_usages.append(p.cpu_percent(interval=0.1))
CpuLoop(o, i, usages) ==
    IF i > CpuSamples THEN [cpu_usages |-> usages, exc |-> "none", reads |-> i - 1]
    ELSE IF o.cpu_fail = i THEN [cpu_usages |-> usages, exc |-> o.cpu_exc, reads |-> i]
    ELSE CpuLoop(o, i + 1, Append(usages, o.cpu[i]))

\* variant: the burst is skipped when neither CPU graph is enabled
CpuBurstIfEnabled(o) ==
    IF GraphEnabled(CPU_PERCENT_AVG) \/ GraphEnabled(CPU_PERCENT_MAX)
    THEN CpuLoop(o, 1, <<>>)
    ELSE [cpu_usages |-> <<>>, exc |-> "none", reads |-> 0]

CpuBurst(o) == CpuLoop(o, 1, <<>>)

RECURSIVE PyMax(_)
PyMax(s) ==
    IF Len(s) = 1 THEN s[1]
    ELSE LET m == PyMax(Tail(s)) IN IF s[1] >= m THEN s[1] ELSE m

RECURSIVE PySum(_)
PySum(s) == IF s = <<>> THEN 0 ELSE s[1] + PySum(Tail(s))

\* float(max(cpu_usages))
CpuPercentMax(usages) == PyFloat(PyMax(usages), 1)

\* variant: the first reading is left out of the average
CpuPercentAvgTail(usages) == PyFloat(PySum(Tail(usages)), Len(Tail(usages)))

\* float(sum(cpu_usages))/len(cpu_usages)
CpuPercentAvg(usages) == PyFloat(PySum(usages), Len(usages))

\* (psutil.virtual_memory().total / 1024 / 1024) * data['memory_percent'] / 100
MemoryUsage(pct) ==
    PyFloat(((TotalMemBytes \div Kib) \div Kib) * pct.num, pct.den * Percent)

Store(r, g, key, v, i) ==
    [r EXCEPT !.stats = StatsSet(@, g, key, v),
              !.written = @ \cup {<<g, key, i>>}]

Raise(r, e, where) == [r EXCEPT !.exc = e, !.at = where]

\* variant: the value is stored whether or not the graph is enabled
StoreUnguarded(r, g, key, v, i) ==
    IF r.exc # "none" THEN r ELSE Store(r, g, key, v, i)

\* self._stats[graph][entry['name']] = value, when the graph is enabled
StoreIfEnabled(r, g, key, v, i) ==
    IF r.exc # "none" THEN r
    ELSE IF GraphEnabled(g) THEN Store(r, g, key, v, i) ELSE r

\* the memory graph is also skipped when memory_percent is None
StoreMemory(r, key, data, i) ==
    IF GraphEnabled(MEMORY_USAGE) /\ data["memory_percent"] # None
    THEN Store(r, MEMORY_USAGE, key, MemoryUsage(data["memory_percent"]), i)
    ELSE r

\* data['num_ctx_switches'].<field>: attribute access on None raises
StoreCtx(r, g, key, data, field, i) ==
    IF r.exc # "none" THEN r
    ELSE IF ~GraphEnabled(g) THEN r
    ELSE IF data["num_ctx_switches"] = None
         THEN Raise(r, AttributeError, "num_ctx_switches")
         ELSE Store(r, g, key, data["num_ctx_switches"][field], i)

\* the inner try: len(p.connections()), AccessDenied swallowed
StoreConnections(r, key, pid, o, cyc, i) ==
    IF r.exc # "none" THEN r
    ELSE IF ~GraphEnabled(NUM_CONNECTIONS) THEN r
    ELSE IF o.connections = AccessDenied
         THEN [r EXCEPT !.conn_called = TRUE, !.conn_denied = TRUE]
    ELSE IF o.connections = NoSuchProcess
         THEN Raise([r EXCEPT !.conn_called = TRUE], NoSuchProcess, "connections")
    ELSE Store([r EXCEPT !.conn_called = TRUE], NUM_CONNECTIONS, key,
               PyInt(OsFacts(pid, cyc).connections), i)

\* lines 106-146: the values are stored one graph after the other
RecordAll(r0, entry, i, data, usages, o, cyc) ==
    LET key == entry.name
        r1 == StoreMemory(r0, key, data, i)
        r2 == StoreIfEnabled(r1, CPU_PERCENT_AVG, key, CpuPercentAvg(usages), i)
        r3 == StoreCtx(r2, CTX_VOLUNTARY, key, data, "voluntary", i)
        r4 == StoreCtx(r3, CTX_INVOLUNTARY, key, data, "involuntary", i)
        r5 == StoreIfEnabled(r4, CPU_PERCENT_MAX, key, CpuPercentMax(usages), i)
        r6 == StoreIfEnabled(r5, NUM_THREADS, key, data["num_threads"], i)
        r7 == StoreIfEnabled(r6, NUM_FDS, key, data["num_fds"], i)
    IN  StoreConnections(r7, key, entry.pid, o, cyc, i)

\* the body of the outer try for entry number i, given the OS's outcome o
Iteration(st, wr, entry, i, o, cyc) ==
    LET r0 == [stats |-> st, written |-> wr, exc |-> "none", at |-> "none",
               opened |-> FALSE, cpu_reads |-> 0,
               conn_called |-> FALSE, conn_denied |-> FALSE]
    IN  IF o.open # "ok" THEN Raise(r0, o.open, "Process")
        ELSE LET r1 == [r0 EXCEPT !.opened = TRUE]
             IN  IF o.as_dict # "ok" THEN Raise(r1, o.as_dict, "as_dict")
                 ELSE LET burst == CpuBurst(o)
                          r2 == [r1 EXCEPT !.cpu_reads = burst.reads]
                      IN  IF burst.exc # "none"
                          THEN Raise(r2, burst.exc, "cpu_percent")
                          ELSE RecordAll(r2, entry, i, AsDict(entry.pid, o, cyc),
                                         burst.cpu_usages, o, cyc)

\* except psutil.NoSuchProcess: continue; anything else leaves retrieveVals
Caught(exc) == exc \in {"none", NoSuchProcess}

----------------------------------------------------------------------------
(* The supervisor's process table, proxy.supervisor.getAllProcessInfo():   *)
(* (group, name) pairs are unique, a STOPPED process has pid 0, the live   *)
(* ones (RUNNING, STARTING) have distinct pids.                            *)

Groups == {"worker", "pool"}
Names == {"worker", "web"}
StateNames == {"RUNNING", "STARTING", "STOPPED"}

Shapes == Groups \X Names \X StateNames

MkEntry(shape, i) ==
    [group |-> shape[1], name |-> shape[2], statename |-> shape[3],
     pid |-> IF shape[3] = "STOPPED" THEN 0 ELSE FirstPid + i]

TablesOfLen(n) ==
    {[i \in 1..n |-> MkEntry(t[i], i)] :
        t \in {u \in [1..n -> Shapes] :
                  \A i, j \in 1..n :
                     i # j => <<u[i][1], u[i][2]>> # <<u[j][1], u[j][2]>>}}

TablesUpTo(n) == UNION {TablesOfLen(k) : k \in 0..n}

EnabledSets ==
    {GraphNames \ d : d \in {e \in SUBSET GraphNames : Cardinality(e) <= MaxDisabled}}

\* the state __init__ leaves, for the given tables and enablement flags
InitWith(tables, flags) ==
    /\ entries \in tables
    /\ enabled \in flags
    /\ graphs = InitGraphs(entries)
    /\ stats = EmptyDict
    /\ vals = EmptyDict
    /\ pc = "idle"
    /\ idx = 0
    /\ cycle = 0
    /\ log = <<>>
    /\ written = {}

Init == InitWith(TablesUpTo(MaxProcs), EnabledSets)

\* every combination of the eight flags, a table of at most one process
InitFlags == InitWith(TablesOfLen(0) \cup TablesOfLen(1), SUBSET GraphNames)

\* a table of at most one process, for several calls on one instance
InitCycles == InitWith(TablesOfLen(0) \cup TablesOfLen(1), EnabledSets)

\* one RUNNING process, every graph enabled
InitCpu == InitWith({t \in TablesOfLen(1) : IsRunning(t[1])}, {GraphNames})

----------------------------------------------------------------------------
(* retrieveVals as steps: entering it, one step per iteration of the loop  *)
(* over self.entries, and the closing loop over the graphs.                *)

RetrieveValsUpTo(n) ==
    /\ pc = "idle"
    /\ cycle < n
    /\ pc' = "loop"
    /\ idx' = 1
    /\ cycle' = cycle + 1
    /\ log' = <<>>
    /\ written' = {}
    /\ UNCHANGED <<entries, enabled, graphs, stats, vals>>

\* one iteration of the loop; burstOnly chooses the outcomes drawn
ProcessEntryIn(burstOnly) ==
    /\ pc = "loop"
    /\ idx <= Len(entries)
    /\ \E o \in (IF burstOnly THEN CpuWorld(entries[idx]) ELSE World(entries[idx])) :
          LET r == Iteration(stats, written, entries[idx], idx, o, cycle)
          IN  /\ stats' = r.stats
              /\ written' = r.written
              /\ log' = Append(log, [o |-> o, exc |-> r.exc, at |-> r.at,
                                      opened |-> r.opened,
                                      cpu_reads |-> r.cpu_reads,
                                      conn_called |-> r.conn_called,
                                      conn_denied |-> r.conn_denied])
              /\ IF Caught(r.exc)
                 THEN pc' = pc /\ idx' = idx + 1
                 ELSE pc' = "raised" /\ idx' = idx
    /\ UNCHANGED <<entries, enabled, graphs, vals, cycle>>

\* muninMain() builds the plugin and calls retrieveVals once
RetrieveVals == RetrieveValsUpTo(1)

\* a caller that keeps the instance and calls retrieveVals again
RetrieveValsAgain == RetrieveValsUpTo(MaxCycles)

ProcessEntry == ProcessEntryIn(FALSE)

ProcessEntryCpu == ProcessEntryIn(TRUE)

FieldNames(g) == {graphs[g][j].name : j \in 1..Len(graphs[g])}

\* for graph_name in self.getGraphList(): for field_name in ...:
\*     self.setGraphVal(graph_name, field_name, self._stats[graph_name].get(field_name))
SetGraphVals ==
    /\ pc = "loop"
    /\ idx > Len(entries)
    /\ stats' = [g \in (DOMAIN stats) \cup (DOMAIN graphs) |-> DefaultGet(stats, g)]
    /\ vals' = [g \in DOMAIN graphs |->
                   [k \in FieldNames(g) |-> DictGet(DefaultGet(stats, g), k)]]
    /\ pc' = "idle"
    /\ UNCHANGED <<entries, enabled, graphs, idx, cycle, log, written>>

Next == RetrieveVals \/ ProcessEntry \/ SetGraphVals

Spec == Init /\ [][Next]_vars

SpecFlags == InitFlags /\ [][Next]_vars

NextCycles == RetrieveValsAgain \/ ProcessEntry \/ SetGraphVals

SpecCycles == InitCycles /\ [][NextCycles]_vars

NextCpu == RetrieveVals \/ ProcessEntryCpu \/ SetGraphVals

SpecCpu == InitCpu /\ [][NextCpu]_vars

----------------------------------------------------------------------------
(* What the claims speak of *)

\* a call of retrieveVals has returned
CycleDone == pc = "idle" /\ cycle > 0

\* the value the result holds under key k of category g
ResultVal(g, k) ==
    IF g \in DOMAIN vals /\ k \in DOMAIN vals[g] THEN vals[g][k] ELSE None

\* the result reports a value for entry i in category g: the graphs are
\* keyed by entry['name']
HasValue(i, g) == ResultVal(g, entries[i].name) # None

Visited == 1..Len(log)

Vanished(i) == log[i].exc = NoSuchProcess

Remove(s, p) == SubSeq(s, 1, p - 1) \o SubSeq(s, p + 1, Len(s))

RECURSIVE RunEntries(_, _, _, _, _)
\* self._stats after the loop of retrieveVals over table es, entry i
\* meeting outcome os[i]
RunEntries(es, os, i, st, cyc) ==
    IF i > Len(es) THEN st
    ELSE LET r == Iteration(st, {}, es[i], i, os[i], cyc)
         IN  IF Caught(r.exc) THEN RunEntries(es, os, i + 1, r.stats, cyc)
             ELSE r.stats

\* what a first call of retrieveVals on a plugin built over table es hands
\* to setGraphVal for key k of graph g
CycleResult(es, os, g, k) ==
    IF GraphEnabled(g)
       /\ \E j \in 1..Len(RunningFields(es)) : RunningFields(es)[j].name = k
    THEN DictGet(DefaultGet(RunEntries(es, os, 1, EmptyDict, 1), g), k)
    ELSE None

Outs == [i \in Visited |-> log[i].o]

RECURSIVE StreamSum(_, _)
StreamSum(s, n) == IF n = 0 THEN 0 ELSE s[n] + StreamSum(s, n - 1)

BothCpuDisabled ==
    ~GraphEnabled(CPU_PERCENT_AVG) /\ ~GraphEnabled(CPU_PERCENT_MAX)

----------------------------------------------------------------------------
(* The claims *)

\* C1 (as claimed): when a read made for a listed process fails with
\* NoSuchProcess, at whichever step, the process has no value in any
\* category of the result at the end of the cycle.
C1_VanishedHasNoValue ==
    CycleDone =>
        \A i \in Visited :
            Vanished(i) => \A g \in GraphNames : ~HasValue(i, g)

\* C2 (as claimed): when connection enumeration is denied for a running
\* process and every other read for it succeeds, the process has a value in
\* every enabled category but connections, and none in connections.
C2_DeniedConnectionsOnly ==
    CycleDone =>
        \A i \in Visited :
            (/\ IsRunning(entries[i])
             /\ log[i].conn_denied
             /\ log[i].exc = "none"
             /\ log[i].o.denied = {})
            => /\ \A g \in enabled \ {NUM_CONNECTIONS} : HasValue(i, g)
               /\ ~HasValue(i, NUM_CONNECTIONS)

\* C3 (as claimed): a process whose state is not RUNNING is never sampled
\* (no psutil handle is opened on it) and no value is stored for it.
C3_NonRunningNeverSampled ==
    \A i \in Visited :
        ~IsRunning(entries[i])
        => /\ ~log[i].opened
           /\ \A w \in written : w[3] # i

\* C4: a category whose flag is false is no key of the result, nor of
\* self._stats, nor of the graph list: it is absent, not present and empty.
C4_DisabledAbsent ==
    \A g \in GraphNames :
        ~GraphEnabled(g)
        => g \notin DOMAIN vals /\ g \notin DOMAIN stats /\ g \notin DOMAIN graphs

\* C4 witness: a cycle has ended with a category disabled and a value
\* reported in an enabled one.
C4_Witness ==
    /\ CycleDone
    /\ \E g \in GraphNames : ~GraphEnabled(g)
    /\ \E i \in Visited : \E g \in GraphNames : HasValue(i, g) /\ log[i].exc = "none"

\* C5 (as claimed): no failure of a per-process read ends the cycle with an
\* error, and a cycle that ends has visited every listed process.
C5_CycleNeverRaises ==
    /\ pc # "raised"
    /\ CycleDone => Len(log) = Len(entries)

\* C6 (as claimed): when a running process p vanishes during the cycle, the
\* value reported for every other running process q (here: each q all of
\* whose reads succeeded) in every category is the one the same cycle
\* reports with p taken out of the table.
C6_OthersUnaffected ==
    CycleDone =>
        \A p \in Visited :
            (IsRunning(entries[p]) /\ Vanished(p))
            => \A q \in Visited \ {p} :
                  (IsRunning(entries[q]) /\ log[q].exc = "none"
                   /\ ~log[q].conn_denied /\ log[q].o.denied = {})
                  => \A g \in GraphNames :
                        ResultVal(g, entries[q].name)
                        = CycleResult(Remove(entries, p), Remove(Outs, p),
                                      g, entries[q].name)

\* C7 (as claimed): a sampled running process has its values under a field
\* that carries its derived label, and two distinct running processes are
\* never recorded under the same key.
C7_KeysDistinct ==
    /\ \A w \in written :
          IsRunning(entries[w[3]])
          => \E j \in 1..Len(graphs[w[1]]) :
                /\ graphs[w[1]][j].name = w[2]
                /\ graphs[w[1]][j].label = LabelOf(entries[w[3]])
    /\ \A w1, w2 \in written :
          (/\ w1[3] # w2[3]
           /\ IsRunning(entries[w1[3]])
           /\ IsRunning(entries[w2[3]]))
          => w1[2] # w2[2]

\* C8: for a process that stays alive, the burst makes exactly 20
\* cpu_percent reads; the maximum stored is the largest of the 20 readings
\* the OS gave, the average stored is their sum over 20, and the average
\* does not exceed the maximum.
C8_BurstStatistics ==
    \A i \in Visited :
        log[i].exc = "none"
        => LET s == log[i].o.cpu
               mx == stats[CPU_PERCENT_MAX][entries[i].name]
               av == stats[CPU_PERCENT_AVG][entries[i].name]
           IN  /\ log[i].cpu_reads = CpuSamples
               /\ mx.den = 1
               /\ \E k \in 1..CpuSamples : s[k] = mx.num
               /\ \A k \in 1..CpuSamples : s[k] <= mx.num
               /\ av.num * CpuSamples = av.den * StreamSum(s, CpuSamples)
               /\ av.num * mx.den <= mx.num * av.den

\* C8 witness: a burst with readings of 50 and of 100 has been sampled:
\* maximum 100, average 150/20.
C8_Witness ==
    /\ CycleDone
    /\ Len(log) = 1
    /\ log[1].exc = "none"
    /\ log[1].cpu_reads = CpuSamples
    /\ stats[CPU_PERCENT_MAX][entries[1].name] = PyFloat(100, 1)
    /\ stats[CPU_PERCENT_AVG][entries[1].name] = PyFloat(150, CpuSamples)

====
